---------------------------- MODULE Spec2Model ----------------------------
(***************************************************************************)
(* A model of the BS2Pro device communication and adaptive control core:   *)
(*   - SmartModeManager (src/bs2pro/smart_mode.py): the fan curve          *)
(*     controller with hysteresis and delayed decreases;                   *)
(*   - RPMMonitor._decode_rpm_data (src/bs2pro/rpm_monitor.py): the        *)
(*     telemetry decoder;                                                  *)
(*   - BS2ProController.detect_bs2pro (src/bs2pro/controller.py): the      *)
(*     device locator;                                                     *)
(*   - BS2ProController.send_command / _get_shared_device /                *)
(*     _release_shared_device and RPMMonitor._monitor_loop: the shared     *)
(*     device handle used by the command path and the telemetry thread.    *)
(*                                                                         *)
(* Optional values (Python None) are sequences: <<>> is None, <<v>> is v.  *)
(* Temperatures are in tenths of a degree, times in seconds.               *)
(***************************************************************************)
EXTENDS Integers, Sequences, FiniteSets, TLC

VARIABLES
    \* ---- SmartModeManager ----
    temperature_ranges,   \* list of [min_temp, max_temp, rpm]
    is_enabled,
    last_temperature,
    last_rpm,
    pending_rpm_change,
    rpm_change_time,
    now,                  \* time.time(), seconds
    smart_ret,            \* value returned by the last get_rpm_for_temperature
    smart_branch,         \* which return statement the last call left by
    smart_arg,            \* the temperature passed to the last call
    \* ---- _calculate_target_rpm probes ----
    calc_probe,           \* the last evaluation: <<[t, rpm]>>
    \* ---- RPMMonitor._decode_rpm_data ----
    data,                 \* the HID report handed to the decoder, a byte list
    dec,                  \* the decoder call: [done, ret, exc]
    \* ---- BS2ProController.detect_bs2pro ----
    hid_env,              \* the HID library: [mode, devices]
    det,                  \* the locator call: [done, exc, vid, pid, path]
    \* ---- the device session: BS2ProController and RPMMonitor ----
    lib,                  \* what the HID libraries offer: [hid, device, open, direct]
    shared_device,        \* BS2ProController.shared_device
    device_lock,          \* holder of BS2ProController.device_lock, or "free"
    os_open,              \* ids of the handles the operating system holds open
    next_id,              \* number of handles opened so far
    demanded,             \* has _get_shared_device run since stop_monitoring
                          \* was last called
    is_monitoring,        \* RPMMonitor.is_monitoring
    mon_device,           \* RPMMonitor.device
    monitor_thread,       \* RPMMonitor.monitor_thread
    m_pc,                 \* position of each telemetry thread
    m_io,                 \* the handle each telemetry thread is reading from
    cmd,                  \* the send_command call of the command thread
    ctl_pc,               \* position of the thread calling start/stop_monitoring
    \* ---- RPMMonitor: publication of decoded frames ----
    callbacks,            \* RPMMonitor.callbacks: how each subscriber behaves
    current_rpm,          \* RPMMonitor.current_rpm
    heard,                \* the values each subscriber was called with
    pub,                  \* the frames handled so far: [frames, last, log, error]
    \* ---- calls of _get_shared_device and _release_shared_device ----
    caller,               \* per thread: position in the call, the call, its result
    open_log,             \* the last pass over the opening methods
    contended,            \* a thread waited for the lock during the creation
    \* ---- TemperatureMonitor ----
    tm,                   \* [temperature: the last value measured, pc]
    \* ---- RPMMonitor: the threads start_monitoring has created ----
    th                    \* [is_monitoring, monitor_thread, pc, ctl, direct]

smartVars == <<temperature_ranges, is_enabled, last_temperature, last_rpm,
               pending_rpm_change, rpm_change_time, now, smart_ret,
               smart_branch, smart_arg>>
calcVars == <<calc_probe>>
decVars == <<data, dec>>
detVars == <<hid_env, det>>
sharedVars == <<shared_device, device_lock, os_open, next_id, demanded>>
monVars == <<is_monitoring, mon_device, monitor_thread, m_pc, m_io>>
devVars == <<lib, sharedVars, monVars, cmd, ctl_pc>>

pubVars == <<callbacks, current_rpm, heard, pub>>

openVars == <<caller, open_log, contended>>

tmVars == <<tm>>

thVars == <<th>>

vars == <<smartVars, calcVars, decVars, detVars, devVars, pubVars, openVars, tmVars, thVars>>

None == <<>>
Some(v) == <<v>>
Val(o) == o[1]

Abs(x) == IF x < 0 THEN -x ELSE x

-----------------------------------------------------------------------------
(* SmartModeManager *)

rpm_change_delay == 10
HysteresisThreshold == 10
FallbackRpm == 1300

\* bounds of the model
MaxTime == 22
MaxRanges == 2
MaxGrid == 6
MaxFrameLen == 16
MaxDevices == 2

DefaultRanges ==
    << [min_temp |-> 0,   max_temp |-> 500,  rpm |-> 1300],
       [min_temp |-> 500, max_temp |-> 600,  rpm |-> 1700],
       [min_temp |-> 600, max_temp |-> 700,  rpm |-> 1900],
       [min_temp |-> 700, max_temp |-> 800,  rpm |-> 2100],
       [min_temp |-> 800, max_temp |-> 1000, rpm |-> 2700] >>

\* the temperature samples fed to the controller (tenths of a degree)
SampleTemps == {450, 495, 500, 505, 650, 750, 850, 1050}
TickSteps == {1, 5}

\* sorted(ranges, key=min_temp): a stable insertion sort
RECURSIVE InsertByMin(_, _)
InsertByMin(sorted, r) ==
    IF sorted = <<>> THEN <<r>>
    ELSE IF r.min_temp < Head(sorted).min_temp
         THEN <<r>> \o sorted
         ELSE <<Head(sorted)>> \o InsertByMin(Tail(sorted), r)

RECURSIVE SortByMin(_)
SortByMin(ranges) ==
    IF ranges = <<>> THEN <<>>
    ELSE InsertByMin(SortByMin(SubSeq(ranges, 1, Len(ranges) - 1)),
                     ranges[Len(ranges)])

\* first range with min_temp <= temperature < max_temp, 0 when none
ExactMatch(ranges, temperature) ==
    LET hits == {i \in 1..Len(ranges) :
                    /\ ranges[i].min_temp <= temperature
                    /\ temperature < ranges[i].max_temp}
    IN IF hits = {} THEN 0 ELSE CHOOSE i \in hits : \A j \in hits : i <= j

\* twice the distance of temperature to the centre of range r
Distance2(r, temperature) == Abs(2 * temperature - (r.min_temp + r.max_temp))

CloserInverted(d, best) == d > best
Closer(d, best) == d < best

\* the loop over sorted_ranges keeping the first range of minimal distance
RECURSIVE ClosestFrom(_, _, _, _)
ClosestFrom(sorted, i, temperature, best) ==
    IF i > Len(sorted) THEN best
    ELSE IF best = 0
            \/ Closer(Distance2(sorted[i], temperature),
                      Distance2(sorted[best], temperature))
         THEN ClosestFrom(sorted, i + 1, temperature, i)
         ELSE ClosestFrom(sorted, i + 1, temperature, best)

calculate_target_rpm(ranges, temperature) ==
    LET m == ExactMatch(ranges, temperature) IN
    IF m # 0 THEN ranges[m].rpm
    ELSE IF ranges # <<>>
    THEN LET sorted_ranges == SortByMin(ranges) IN
         IF temperature < sorted_ranges[1].min_temp
         THEN sorted_ranges[1].rpm
         ELSE IF temperature >= sorted_ranges[Len(sorted_ranges)].max_temp
         THEN sorted_ranges[Len(sorted_ranges)].rpm
         ELSE sorted_ranges[ClosestFrom(sorted_ranges, 1, temperature, 0)].rpm
    ELSE FallbackRpm

DelayPendingLe(time_elapsed) == time_elapsed <= rpm_change_delay
DelayPendingNever(time_elapsed) == FALSE
DelayPending(time_elapsed) == time_elapsed < rpm_change_delay

HysteresisHalf(temperature) ==
    /\ last_temperature # None
    /\ 2 * Abs(temperature - Val(last_temperature)) < HysteresisThreshold
    /\ last_rpm # None
    /\ pending_rpm_change = None
Hysteresis(temperature) ==
    /\ last_temperature # None
    /\ Abs(temperature - Val(last_temperature)) < HysteresisThreshold
    /\ last_rpm # None
    /\ pending_rpm_change = None

HasPending ==
    /\ pending_rpm_change # None
    /\ rpm_change_time # None
    /\ last_rpm # None

get_rpm_for_temperature(temperature) ==
    LET current_time == now
        new_rpm == calculate_target_rpm(temperature_ranges, temperature)
    IN
    /\ UNCHANGED <<temperature_ranges, is_enabled, now>>
    /\ smart_arg' = Some(temperature)
    /\ IF HasPending
       THEN IF DelayPending(current_time - Val(rpm_change_time))
            THEN /\ last_temperature' = Some(temperature)
                 /\ smart_ret' = last_rpm
                 /\ smart_branch' = "delayed"
                 /\ UNCHANGED <<last_rpm, pending_rpm_change, rpm_change_time>>
            ELSE /\ last_rpm' = pending_rpm_change
                 /\ pending_rpm_change' = None
                 /\ rpm_change_time' = None
                 /\ last_temperature' = Some(temperature)
                 /\ smart_ret' = pending_rpm_change
                 /\ smart_branch' = "applied"
       ELSE IF Hysteresis(temperature)
       THEN /\ smart_ret' = last_rpm
            /\ smart_branch' = "hysteresis"
            /\ UNCHANGED <<last_temperature, last_rpm, pending_rpm_change,
                           rpm_change_time>>
       ELSE /\ last_temperature' = Some(temperature)
            /\ IF last_rpm = None
               THEN /\ last_rpm' = Some(new_rpm)
                    /\ smart_ret' = Some(new_rpm)
                    /\ smart_branch' = "first"
                    /\ UNCHANGED <<pending_rpm_change, rpm_change_time>>
               ELSE IF new_rpm > Val(last_rpm)
               THEN /\ last_rpm' = Some(new_rpm)
                    /\ pending_rpm_change' = None
                    /\ rpm_change_time' = None
                    /\ smart_ret' = Some(new_rpm)
                    /\ smart_branch' = "increase"
               ELSE IF new_rpm < Val(last_rpm)
               THEN /\ IF pending_rpm_change = None
                          \/ pending_rpm_change # Some(new_rpm)
                       THEN /\ pending_rpm_change' = Some(new_rpm)
                            /\ rpm_change_time' = Some(current_time)
                       ELSE UNCHANGED <<pending_rpm_change, rpm_change_time>>
                    /\ smart_ret' = last_rpm
                    /\ smart_branch' = "decrease"
                    /\ UNCHANGED last_rpm
               ELSE /\ smart_ret' = last_rpm
                    /\ smart_branch' = "same"
                    /\ UNCHANGED <<last_rpm, pending_rpm_change,
                                   rpm_change_time>>

\* what set_enabled leaves in smart_branch: whether the enable found a
\* decrease pending
EnabledBranch ==
    IF pending_rpm_change # None THEN "enabled_over_pending" ELSE "enabled"

\* set_enabled without the reset of the pending decrease
set_enabled_keeps_pending(enabled) ==
    /\ is_enabled' = enabled
    /\ IF enabled
       THEN /\ last_temperature' = None
            /\ last_rpm' = None
            /\ UNCHANGED <<pending_rpm_change, rpm_change_time>>
       ELSE UNCHANGED <<last_temperature, last_rpm, pending_rpm_change,
                        rpm_change_time>>
    /\ smart_ret' = None
    /\ smart_arg' = None
    /\ smart_branch' = IF enabled THEN EnabledBranch ELSE "disabled"
    /\ UNCHANGED <<temperature_ranges, now>>

\* set_enabled without the reset of the pending start time
set_enabled_keeps_time(enabled) ==
    /\ is_enabled' = enabled
    /\ IF enabled
       THEN /\ last_temperature' = None
            /\ last_rpm' = None
            /\ pending_rpm_change' = None
            /\ UNCHANGED rpm_change_time
       ELSE UNCHANGED <<last_temperature, last_rpm, pending_rpm_change,
                        rpm_change_time>>
    /\ smart_ret' = None
    /\ smart_arg' = None
    /\ smart_branch' = IF enabled THEN EnabledBranch ELSE "disabled"
    /\ UNCHANGED <<temperature_ranges, now>>

set_enabled(enabled) ==
    /\ is_enabled' = enabled
    /\ IF enabled
       THEN /\ last_temperature' = None
            /\ last_rpm' = None
            /\ pending_rpm_change' = None
            /\ rpm_change_time' = None
       ELSE UNCHANGED <<last_temperature, last_rpm, pending_rpm_change,
                        rpm_change_time>>
    /\ smart_ret' = None
    /\ smart_arg' = None
    /\ smart_branch' = IF enabled THEN EnabledBranch ELSE "disabled"
    /\ UNCHANGED <<temperature_ranges, now>>

\* time.time() advancing between calls
Tick(d) ==
    /\ now + d <= MaxTime
    /\ now' = now + d
    /\ UNCHANGED <<temperature_ranges, is_enabled, last_temperature, last_rpm,
                   pending_rpm_change, rpm_change_time, smart_ret,
                   smart_branch, smart_arg>>

SmartFieldsInit ==
    /\ is_enabled = FALSE
    /\ last_temperature = None
    /\ last_rpm = None
    /\ pending_rpm_change = None
    /\ rpm_change_time = None
    /\ now = 0
    /\ smart_ret = None
    /\ smart_branch = "init"
    /\ smart_arg = None

\* load_config without a configuration file
SmartInit ==
    /\ temperature_ranges = DefaultRanges
    /\ SmartFieldsInit

CalcIdle == calc_probe = <<>>

DecIdle ==
    /\ data = <<>>
    /\ dec = [done |-> FALSE, ret |-> None, exc |-> FALSE]

DetIdle ==
    /\ hid_env = [mode |-> "ok", devices |-> <<>>]
    /\ det = [done |-> FALSE, exc |-> FALSE, vid |-> None, pid |-> None,
              path |-> None]

\* the telemetry threads that can exist at once: start_monitoring creates a
\* thread only after the previous one has ended
MonIds == {"m1"}

\* a handle: the number the system gave it and the API that opened it
NoHandle == [id |-> 0, method |-> "none"]
Handle(id, method) == [id |-> id, method |-> method]

\* a send_command call that has not started. The call keeps what happened
\* in it: the attempt number, the writes that succeeded, whether a write
\* failed, whether an attempt ended without a write, the severities passed
\* to status_callback, the last message passed to it and the value returned
IdleCmd ==
    [pc |-> "idle", attempt |-> 0, dev |-> NoHandle,
     sink |-> <<>>, message |-> "none", result |-> "none", writes_ok |-> 0,
     write_failed |-> FALSE, no_write |-> FALSE]

\* BS2ProController.__init__ and RPMMonitor.__init__
DevFieldsInit ==
    /\ shared_device = NoHandle
    /\ device_lock = "free"
    /\ os_open = {}
    /\ next_id = 0
    /\ demanded = FALSE
    /\ is_monitoring = FALSE
    /\ mon_device = NoHandle
    /\ monitor_thread = "none"
    /\ m_pc = [t \in MonIds |-> "off"]
    /\ m_io = [t \in MonIds |-> NoHandle]
    /\ cmd = IdleCmd
    /\ ctl_pc = "idle"

DevIdle ==
    /\ lib = [hid |-> TRUE, device |-> TRUE, open |-> FALSE, direct |-> FALSE]
    /\ DevFieldsInit

\* RPMMonitor.__init__: no subscriber, current_rpm 0, no frame handled
PubIdle ==
    /\ callbacks = <<>>
    /\ current_rpm = 0
    /\ heard = <<>>
    /\ pub = [frames |-> 0, last |-> None, log |-> <<>>, error |-> FALSE]

\* the two threads that ask for the shared handle: the one that runs
\* send_command and stop_monitoring, and the telemetry thread
Callers == {"main", "m1"}

IdleCaller == [pc |-> "idle", op |-> "none", ret |-> NoHandle]
NoOpen == [sight |-> "absent", tried |-> <<>>, ret |-> NoHandle]

\* no thread is inside _get_shared_device or _release_shared_device
OpenIdle ==
    /\ caller = [t \in Callers |-> IdleCaller]
    /\ open_log = NoOpen
    /\ contended = FALSE

\* TemperatureMonitor.__init__: temperature 0, the loop about to measure
TmIdle == tm = [temperature |-> 0, pc |-> "measure"]

\* the telemetry threads start_monitoring can create, in this order
MaxThreads == 4
ThreadIds == 1..MaxThreads

\* RPMMonitor.__init__: not monitoring, no thread
NoThreads(direct) ==
    [is_monitoring |-> FALSE, monitor_thread |-> 0,
     pc |-> [i \in ThreadIds |-> "unborn"], ctl |-> "idle", direct |-> direct]
ThIdle == th = NoThreads(FALSE)

Sample == \E t \in SampleTemps : get_rpm_for_temperature(t)
Toggle == \E b \in BOOLEAN : set_enabled(b)
Clock == \E d \in TickSteps : Tick(d)

SmartNext ==
    \/ Sample /\ UNCHANGED <<calcVars, decVars, detVars, devVars, pubVars,
                             openVars, tmVars, thVars>>
    \/ Toggle /\ UNCHANGED <<calcVars, decVars, detVars, devVars, pubVars,
                             openVars, tmVars, thVars>>
    \/ Clock /\ UNCHANGED <<calcVars, decVars, detVars, devVars, pubVars,
                            openVars, tmVars, thVars>>

InitSmart ==
    SmartInit /\ CalcIdle /\ DecIdle /\ DetIdle /\ DevIdle /\ PubIdle
    /\ OpenIdle
    /\ TmIdle
    /\ ThIdle

SpecSmart == InitSmart /\ [][SmartNext]_vars

-----------------------------------------------------------------------------
(* Claims about SmartModeManager, checked under SpecSmart *)

\* the sample is suppressed by hysteresis: no decrease pending, a last_rpm
\* exists and the temperature moved by less than 1.0 degree
Suppressed(t) ==
    /\ pending_rpm_change = None
    /\ last_rpm # None
    /\ last_temperature # None
    /\ Abs(t - Val(last_temperature)) < 10

\* C3 (as claimed): in an enabled state with last_rpm set, a sample that is
\* not suppressed by hysteresis and whose target_rpm is greater than last_rpm
\* sets last_rpm to target_rpm in that call, returns it and leaves no pending
\* decrease, also when a decrease was pending.
C3_IncreaseImmediate ==
    [][\A t \in SampleTemps :
        LET target == calculate_target_rpm(temperature_ranges, t) IN
        ( /\ get_rpm_for_temperature(t)
          /\ is_enabled
          /\ last_rpm # None
          /\ ~Suppressed(t)
          /\ target > Val(last_rpm) )
        => /\ last_rpm' = Some(target)
           /\ smart_ret' = Some(target)
           /\ pending_rpm_change' = None
           /\ rpm_change_time' = None]_vars

\* C4: a sample that starts a pending decrease records its own time t0 and
\* keeps last_rpm = R; every later sample indicating the pending target P
\* before t0 + 10 s returns R and leaves last_rpm = R and the pending state
\* as it was; the first such sample at or after t0 + 10 s sets last_rpm to P
\* and clears the pending state.
C4_AsymmetricDelay ==
    [][\A t \in SampleTemps :
        LET target == calculate_target_rpm(temperature_ranges, t) IN
        get_rpm_for_temperature(t) =>
          /\ (pending_rpm_change = None /\ pending_rpm_change' # None)
             => /\ rpm_change_time' = Some(now)
                /\ last_rpm # None
                /\ last_rpm' = last_rpm
                /\ smart_ret' = last_rpm
                /\ pending_rpm_change' = Some(target)
                /\ target < Val(last_rpm)
          /\ (pending_rpm_change # None /\ pending_rpm_change = Some(target))
             => /\ rpm_change_time # None
                /\ last_rpm # None
                /\ IF now < Val(rpm_change_time) + 10
                   THEN /\ smart_ret' = last_rpm
                        /\ last_rpm' = last_rpm
                        /\ pending_rpm_change' = pending_rpm_change
                        /\ rpm_change_time' = rpm_change_time
                   ELSE /\ last_rpm' = pending_rpm_change
                        /\ smart_ret' = pending_rpm_change
                        /\ pending_rpm_change' = None
                        /\ rpm_change_time' = None]_vars

\* a decrease was applied by a sample indicating the pending target
C4_Witness ==
    /\ smart_branch = "applied"
    /\ smart_arg # None
    /\ last_rpm = Some(calculate_target_rpm(temperature_ranges, Val(smart_arg)))
    /\ now >= 10

\* C5: with last_rpm set and no decrease pending, a sample less than 1.0
\* degree from the last applied temperature is ignored: the call returns
\* last_rpm and changes none of last_temperature, last_rpm, the pending target
\* and the pending start time.
C5_Hysteresis ==
    [][\A t \in SampleTemps :
        ( /\ get_rpm_for_temperature(t)
          /\ last_rpm # None
          /\ pending_rpm_change = None )
        => /\ last_temperature # None
           /\ Abs(t - Val(last_temperature)) < 10
              => /\ smart_ret' = last_rpm
                 /\ last_temperature' = last_temperature
                 /\ last_rpm' = last_rpm
                 /\ pending_rpm_change' = None
                 /\ rpm_change_time' = rpm_change_time]_vars

\* a sample from a range with another RPM was ignored by hysteresis
C5_Witness ==
    /\ smart_branch = "hysteresis"
    /\ smart_arg # None
    /\ last_rpm # None
    /\ last_temperature # None
    /\ smart_arg # last_temperature
    /\ calculate_target_rpm(temperature_ranges, Val(smart_arg)) # Val(last_rpm)

\* the last call was set_enabled(True)
JustEnabled == smart_branch \in {"enabled", "enabled_over_pending"}

\* C13: set_enabled(True) leaves last_temperature, last_rpm, the pending RPM
\* and the pending start time unset, whatever they were, and the sample that
\* follows is applied at once as a first sample: its target is returned and
\* becomes last_rpm, and nothing is pending.
C13_EnableResets ==
    [][ /\ set_enabled(TRUE) =>
             /\ last_temperature' = None
             /\ last_rpm' = None
             /\ pending_rpm_change' = None
             /\ rpm_change_time' = None
        /\ \A t \in SampleTemps :
             LET target == calculate_target_rpm(temperature_ranges, t) IN
             (get_rpm_for_temperature(t) /\ JustEnabled) =>
                 /\ smart_branch' = "first"
                 /\ smart_ret' = Some(target)
                 /\ last_rpm' = Some(target)
                 /\ last_temperature' = Some(t)
                 /\ pending_rpm_change' = None
                 /\ rpm_change_time' = None ]_vars

\* Smart Mode was enabled again while a decrease was pending
C13_Witness ==
    /\ smart_branch = "enabled_over_pending"
    /\ is_enabled
    /\ last_temperature = None
    /\ last_rpm = None
    /\ pending_rpm_change = None
    /\ rpm_change_time = None

\* C20: while a decrease is pending, a sample whose target is lower than
\* last_rpm and differs from the pending target makes its target the pending
\* one and restarts the delay window at the time of the sample, last_rpm
\* staying as it was, so that the decrease is applied no earlier than 10 s
\* after that sample.
C20_PendingReplaced ==
    [][\A t \in SampleTemps :
        LET target == calculate_target_rpm(temperature_ranges, t) IN
        ( /\ get_rpm_for_temperature(t)
          /\ pending_rpm_change # None
          /\ last_rpm # None
          /\ target < Val(last_rpm)
          /\ pending_rpm_change # Some(target) )
        => /\ pending_rpm_change' = Some(target)
           /\ rpm_change_time' = Some(now)
           /\ last_rpm' = last_rpm]_vars

\* C21: a sample that arrives after the delay window has elapsed applies the
\* pending target and clears the pending state, and is then evaluated
\* normally in the same call: when its own target is higher than the RPM
\* just applied, the call ends with last_rpm equal to that target.
C21_AppliedThenEvaluated ==
    [][\A t \in SampleTemps :
        LET target == calculate_target_rpm(temperature_ranges, t) IN
        ( /\ get_rpm_for_temperature(t)
          /\ HasPending
          /\ now - Val(rpm_change_time) >= 10
          /\ target > Val(pending_rpm_change) )
        => /\ last_rpm' = Some(target)
           /\ pending_rpm_change' = None
           /\ rpm_change_time' = None]_vars

\* C27: a call of get_rpm_for_temperature that leaves last_rpm lower than it
\* found it applies a pending decrease to exactly that value whose start time
\* lies at least 10 s back; a value becomes pending only together with the
\* current time as its start time, and a pending value is never exchanged
\* for another, so the decrease was pending for all of those 10 s.
C27_LoweredOnlyAfterDelay ==
    [][\A t \in SampleTemps :
        get_rpm_for_temperature(t) =>
          /\ (last_rpm # None /\ last_rpm' # None
                 /\ Val(last_rpm') < Val(last_rpm))
             => /\ pending_rpm_change = last_rpm'
                /\ rpm_change_time # None
                /\ now - Val(rpm_change_time) >= 10
          /\ (pending_rpm_change' # None
                 /\ pending_rpm_change' # pending_rpm_change)
             => /\ pending_rpm_change = None
                /\ rpm_change_time' = Some(now)
          /\ pending_rpm_change' = pending_rpm_change
             => rpm_change_time' = rpm_change_time]_vars

\* a decrease to 1300 was applied by a sample, 10 s or more after it became
\* pending, with last_rpm above it until then
C27_Witness ==
    /\ smart_branch = "applied"
    /\ last_rpm = Some(1300)
    /\ smart_ret = Some(1300)
    /\ pending_rpm_change = None
    /\ now >= 10

\* C28: the pending RPM is set exactly when the pending start time is set;
\* while a decrease is pending last_rpm is set and the pending RPM is lower
\* than last_rpm; the value get_rpm_for_temperature returned is last_rpm.
C28_StateConsistent ==
    /\ (pending_rpm_change # None) <=> (rpm_change_time # None)
    /\ pending_rpm_change # None
          => /\ last_rpm # None
             /\ Val(pending_rpm_change) < Val(last_rpm)
    /\ smart_arg # None
          => /\ last_rpm # None
             /\ smart_ret = last_rpm

\* a sample was answered with last_rpm while a lower RPM was pending
C28_Witness ==
    /\ smart_branch = "delayed"
    /\ pending_rpm_change # None
    /\ rpm_change_time # None
    /\ Val(pending_rpm_change) < Val(last_rpm)
    /\ smart_ret = last_rpm

-----------------------------------------------------------------------------
(* _calculate_target_rpm over configured range sets, under SpecCalc *)

RpmChoices == {1300, 1900}
GridTemps == 0..MaxGrid
ProbeTemps == -1..(MaxGrid + 1)

add_temperature_range(min_temp, max_temp, rpm) ==
    /\ Len(temperature_ranges) < MaxRanges
    /\ temperature_ranges' =
          SortByMin(Append(temperature_ranges,
                           [min_temp |-> min_temp, max_temp |-> max_temp,
                            rpm |-> rpm]))
    /\ calc_probe' = <<>>
    /\ UNCHANGED <<is_enabled, last_temperature, last_rpm, pending_rpm_change,
                   rpm_change_time, now, smart_ret, smart_branch, smart_arg>>
    /\ UNCHANGED <<decVars, detVars, devVars, pubVars, openVars, tmVars, thVars>>

\* one evaluation of _calculate_target_rpm on the configured ranges
Probe(t) ==
    /\ calc_probe' = <<[t |-> t,
                        rpm |-> calculate_target_rpm(temperature_ranges, t)]>>
    /\ UNCHANGED <<smartVars, decVars, detVars, devVars, pubVars, openVars, tmVars, thVars>>

\* load_config falling back to an empty list
CalcInit ==
    /\ temperature_ranges = <<>>
    /\ SmartFieldsInit
    /\ calc_probe = <<>>
    /\ DecIdle
    /\ DetIdle
    /\ DevIdle
    /\ PubIdle
    /\ OpenIdle
    /\ TmIdle
    /\ ThIdle

AddRange ==
    \E lo \in GridTemps, hi \in GridTemps, rpm \in RpmChoices :
        lo < hi /\ add_temperature_range(lo, hi, rpm)
ProbeAny == \E t \in ProbeTemps : Probe(t)

CalcNext ==
    \/ AddRange
    \/ ProbeAny

SpecCalc == CalcInit /\ [][CalcNext]_vars

\* ascending, non-overlapping bounds (gaps allowed), RPMs non-decreasing
ValidRanges(ranges) ==
    /\ \A i \in 1..Len(ranges) : ranges[i].min_temp < ranges[i].max_temp
    /\ \A i, j \in 1..Len(ranges) :
          i < j => /\ ranges[i].max_temp <= ranges[j].min_temp
                   /\ ranges[i].rpm <= ranges[j].rpm

\* C6: on a range set with ascending, non-overlapping bounds and
\* non-decreasing RPMs, the target RPM is monotonically non-decreasing in the
\* temperature over the full domain (below, inside, on boundaries, in gaps,
\* above).
C6_Monotone ==
    (ValidRanges(temperature_ranges) /\ calc_probe # <<>>)
    => \A t1 \in ProbeTemps :
          LET r1 == calculate_target_rpm(temperature_ranges, t1) IN
          /\ t1 <= calc_probe[1].t => r1 <= calc_probe[1].rpm
          /\ calc_probe[1].t <= t1 => calc_probe[1].rpm <= r1

\* a temperature inside a gap between two ranges of different RPM was mapped
C6_Witness ==
    /\ ValidRanges(temperature_ranges)
    /\ Len(temperature_ranges) = 2
    /\ temperature_ranges[1].rpm < temperature_ranges[2].rpm
    /\ calc_probe # <<>>
    /\ temperature_ranges[1].max_temp <= calc_probe[1].t
    /\ calc_probe[1].t < temperature_ranges[2].min_temp
    /\ calc_probe[1].rpm = temperature_ranges[2].rpm

-----------------------------------------------------------------------------
(* RPMMonitor._decode_rpm_data, under SpecDecode *)

PlausibleMin == 1000
PlausibleMax == 3000

Marker == <<3, 90, 165>>          \* 03 5a a5

Plausible(rpm) == PlausibleMin <= rpm /\ rpm <= PlausibleMax

\* data[lo:hi] (0-based, hi exclusive, cut at the end of the data)
Slice(d, lo, hi) ==
    IF lo >= Len(d) THEN <<>>
    ELSE SubSeq(d, lo + 1, IF hi <= Len(d) THEN hi ELSE Len(d))

\* struct.unpack('<H', b)[0] and struct.unpack('>H', b)[0]; struct.error
\* (exc) unless b holds exactly two bytes
UnpackLE(b) ==
    IF Len(b) = 2 THEN [exc |-> FALSE, v |-> b[1] + 256 * b[2]]
    ELSE [exc |-> TRUE, v |-> 0]
UnpackBE(b) ==
    IF Len(b) = 2 THEN [exc |-> FALSE, v |-> 256 * b[1] + b[2]]
    ELSE [exc |-> TRUE, v |-> 0]

\* len(data) >= 10 and data[0] == 0x03 and data[1] == 0x5a and data[2] == 0xa5
IsStatusResponseFirstByte(d) ==
    Len(d) >= 10 /\ d[1] = Marker[1]
IsStatusResponse(d) ==
    Len(d) >= 10 /\ d[1] = Marker[1] /\ d[2] = Marker[2] /\ d[3] = Marker[3]

\* little-endian is tried before big-endian
FirstPlausibleSwapped(le, be) ==
    IF Plausible(be) THEN Some(be)
    ELSE IF Plausible(le) THEN Some(le)
    ELSE None
FirstPlausible(le, be) ==
    IF Plausible(le) THEN Some(le)
    ELSE IF Plausible(be) THEN Some(be)
    ELSE None

\* Methods 1-3: a two-byte field at offset lo, when the data is long enough
Field(d, lo) ==
    IF Len(d) >= lo + 2
    THEN LET rpm_bytes == Slice(d, lo, lo + 2)
             le == UnpackLE(rpm_bytes)
             be == UnpackBE(rpm_bytes)
         IN IF le.exc \/ be.exc THEN [exc |-> TRUE, ret |-> None]
            ELSE [exc |-> FALSE, ret |-> FirstPlausible(le.v, be.v)]
    ELSE [exc |-> FALSE, ret |-> None]

\* Method 4: bytes 14-15 scaled by 10, then by 100
Scaled(d) ==
    IF Len(d) >= 16
    THEN LET rpm_bytes == Slice(d, 14, 16)
             le == UnpackLE(rpm_bytes)
             be == UnpackBE(rpm_bytes)
         IN IF le.exc \/ be.exc THEN [exc |-> TRUE, ret |-> None]
            ELSE LET s10 == FirstPlausible(le.v * 10, be.v * 10)
                     s100 == FirstPlausible(le.v * 100, be.v * 100)
                 IN [exc |-> FALSE, ret |-> IF s10 # None THEN s10 ELSE s100]
    ELSE [exc |-> FALSE, ret |-> None]

\* Methods 1 and 2 exchanged: bytes 10-11 are looked at before bytes 8-9
DecodeBodyReordered(d) ==
    IF IsStatusResponse(d)
    THEN LET m1 == Field(d, 8)
             m2 == Field(d, 10)
             m3 == Field(d, 13)
             m4 == Scaled(d)
         IN IF m2.exc \/ m2.ret # None THEN m2
            ELSE IF m1.exc \/ m1.ret # None THEN m1
            ELSE IF m3.exc \/ m3.ret # None THEN m3
            ELSE m4
    ELSE [exc |-> FALSE, ret |-> None]

\* the body of the try block
DecodeBody(d) ==
    IF IsStatusResponse(d)
    THEN LET m1 == Field(d, 8)
             m2 == Field(d, 10)
             m3 == Field(d, 13)
             m4 == Scaled(d)
         IN IF m1.exc \/ m1.ret # None THEN m1
            ELSE IF m2.exc \/ m2.ret # None THEN m2
            ELSE IF m3.exc \/ m3.ret # None THEN m3
            ELSE m4
    ELSE [exc |-> FALSE, ret |-> None]

\* try: ... except Exception: return None
decode_rpm_data(d) ==
    LET body == DecodeBody(d) IN
    IF body.exc THEN [exc |-> FALSE, ret |-> None] ELSE body

\* ---- the reports fed to the decoder ----
LoByte(w) == w % 256
HiByte(w) == w \div 256

\* a report of n bytes: header, filler, the word f8 little-endian at bytes
\* 8-9, f10 little-endian at bytes 10-11, then bytes 13, 14 and 15
Frame(n, hdr, fill, f8, f10, tail) ==
    [i \in 1..n |->
        CASE i <= 3  -> hdr[i]
          [] i = 9   -> LoByte(f8)
          [] i = 10  -> HiByte(f8)
          [] i = 11  -> LoByte(f10)
          [] i = 12  -> HiByte(f10)
          [] i = 14  -> tail[1]
          [] i = 15  -> tail[2]
          [] i = 16  -> tail[3]
          [] OTHER   -> fill]

Headers == {Marker, <<3, 90, 0>>, <<3, 0, 165>>, <<0, 90, 165>>}
\* 5125 is 1300 big-endian, 1284 is also plausible (1029) big-endian
Words == {0, 999, 1000, 1284, 3000, 3001, 5125}
Tails == {<<0, 0, 0>>, <<20, 5, 0>>, <<0, 150, 0>>, <<0, 0, 20>>}

FrameInputs ==
    { Frame(n, Marker, fill, v, f10, tail) :
        n \in 10..MaxFrameLen, fill \in {0, 255}, v \in PlausibleMin..PlausibleMax,
        f10 \in {0}, tail \in {<<0, 0, 0>>, <<20, 5, 0>>} }
    \cup
    { Frame(n, hdr, 0, f8, f10, tail) :
        n \in 0..MaxFrameLen, hdr \in Headers, f8 \in Words,
        f10 \in {0, 1300}, tail \in Tails }

DecInit ==
    /\ data \in FrameInputs
    /\ dec = [done |-> FALSE, ret |-> None, exc |-> FALSE]
    /\ SmartInit
    /\ CalcIdle
    /\ DetIdle
    /\ DevIdle
    /\ PubIdle
    /\ OpenIdle
    /\ TmIdle
    /\ ThIdle

Decode ==
    /\ ~dec.done
    /\ dec' = [done |-> TRUE, ret |-> decode_rpm_data(data).ret,
               exc |-> decode_rpm_data(data).exc]
    /\ UNCHANGED <<data, smartVars, calcVars, detVars, devVars, pubVars, openVars, tmVars, thVars>>

DecNext == Decode

SpecDecode == DecInit /\ [][DecNext]_vars

HasMarker(d) == Len(d) >= 3 /\ d[1] = 3 /\ d[2] = 90 /\ d[3] = 165

\* C7: a frame of at least 10 bytes that begins with 03 5A A5 and carries a
\* value v in [1000, 3000] little-endian at bytes 8-9 decodes to exactly v,
\* whatever the other bytes hold.
C7_RoundTrip ==
    ( /\ dec.done
      /\ Len(data) >= 10
      /\ HasMarker(data)
      /\ data[9] + 256 * data[10] >= 1000
      /\ data[9] + 256 * data[10] <= 3000 )
    => /\ dec.ret = Some(data[9] + 256 * data[10])
       /\ ~dec.exc

\* a round trip of a value whose bytes are also plausible big-endian, in a
\* frame whose other fields hold plausible values too
C7_Witness ==
    /\ dec.done
    /\ Len(data) = MaxFrameLen
    /\ HasMarker(data)
    /\ data[9] = 4 /\ data[10] = 5
    /\ data[14] = 20 /\ data[15] = 5
    /\ dec.ret = Some(1284)

\* C8: a frame shorter than 10 bytes, or one whose first three bytes are not
\* 03 5A A5, decodes to None and nothing is raised.
C8_Rejects ==
    (dec.done /\ (Len(data) < 10 \/ ~HasMarker(data)))
    => dec.ret = None /\ ~dec.exc

\* a long frame with a plausible value at bytes 8-9 but a wrong third marker
\* byte was rejected
C8_Witness ==
    /\ dec.done
    /\ Len(data) >= 10
    /\ data[1] = 3 /\ data[2] = 90 /\ data[3] # 165
    /\ data[9] + 256 * data[10] = 1000
    /\ dec.ret = None

\* the 16-bit words at 0-based offset lo of a frame
WordLE(d, lo) == d[lo + 1] + 256 * d[lo + 2]
WordBE(d, lo) == 256 * d[lo + 1] + d[lo + 2]

\* the candidates of a frame in the order they are examined; a candidate
\* takes part only when its bytes fit in the frame
CandidatesAt(d, lo) ==
    IF Len(d) >= lo + 2 THEN <<WordLE(d, lo), WordBE(d, lo)>> ELSE <<>>
Candidates(d) ==
    CandidatesAt(d, 8) \o CandidatesAt(d, 10) \o CandidatesAt(d, 13) \o
    (IF Len(d) >= 16
     THEN <<WordLE(d, 14) * 10, WordBE(d, 14) * 10,
            WordLE(d, 14) * 100, WordBE(d, 14) * 100>>
     ELSE <<>>)

RECURSIVE FirstInRange(_)
FirstInRange(q) ==
    IF q = <<>> THEN None
    ELSE IF 1000 <= q[1] /\ q[1] <= 3000 THEN Some(q[1])
    ELSE FirstInRange(Tail(q))

\* C18: for a frame of at least 10 bytes that begins with the marker the
\* decoder returns the first value within [1000, 3000] among the candidates
\* bytes 8-9 LE, BE, bytes 10-11 LE, BE, bytes 13-14 LE, BE, then bytes
\* 14-15 (LE and BE times 10, LE and BE times 100), counting only the
\* candidates whose bytes fit in the frame, and None when there is none; so
\* every result is None or within [1000, 3000].
C18_FirstPlausibleCandidate ==
    /\ (dec.done /\ Len(data) >= 10 /\ HasMarker(data))
          => dec.ret = FirstInRange(Candidates(data))
    /\ dec.done
          => \/ dec.ret = None
             \/ (1000 <= Val(dec.ret) /\ Val(dec.ret) <= 3000)

\* bytes 8-9, 10-11 and 13-14 held nothing plausible, bytes 14-15 read 20
\* big-endian, which is plausible only when scaled by 100
C18_Witness ==
    /\ dec.done
    /\ Len(data) = 16
    /\ HasMarker(data)
    /\ WordLE(data, 8) = 3001
    /\ WordLE(data, 10) = 0
    /\ data[14] = 0 /\ data[15] = 0 /\ data[16] = 20
    /\ dec.ret = Some(2000)

-----------------------------------------------------------------------------
(* BS2ProController.detect_bs2pro, under SpecDetect *)

\* Strings are sequences of characters; the empty sequence stands for both ""
\* and a missing (None) string, which the locator treats alike.
LowerCase == <<"a", "b", "c", "d", "e", "f", "g", "h", "i", "j", "k", "l", "m",
               "n", "o", "p", "q", "r", "s", "t", "u", "v", "w", "x", "y", "z">>
UpperCase == <<"A", "B", "C", "D", "E", "F", "G", "H", "I", "J", "K", "L", "M",
               "N", "O", "P", "Q", "R", "S", "T", "U", "V", "W", "X", "Y", "Z">>

UpperChar(c) ==
    IF \E i \in 1..Len(LowerCase) : LowerCase[i] = c
    THEN UpperCase[CHOOSE i \in 1..Len(LowerCase) : LowerCase[i] = c]
    ELSE c

\* str.upper()
Upper(str) == [i \in 1..Len(str) |-> UpperChar(str[i])]

\* sub in str
Contains(sub, str) ==
    \E i \in 0..(Len(str) - Len(sub)) : SubSeq(str, i + 1, i + Len(sub)) = sub

BS2 == <<"B", "S", "2">>
FLYDIGI == <<"F", "L", "Y", "D", "I", "G", "I">>
FlydigiVid == 14295                \* 0x37d7
FLYDIGI_VENDOR_IDS == {FlydigiVid}

NoDevice == [exc |-> FALSE, vid |-> None, pid |-> None, path |-> None]
Raised == [exc |-> TRUE, vid |-> None, pid |-> None, path |-> None]

is_bs2_product(d) ==
    LET product_upper == Upper(d.product_string) IN
    product_upper # <<>> /\ Contains(BS2, product_upper)
is_flydigi_manufacturer(d) ==
    LET manufacturer_upper == Upper(d.manufacturer_string) IN
    manufacturer_upper # <<>> /\ Contains(FLYDIGI, manufacturer_upper)
is_flydigi_vendor(d) ==
    d.vendor_id # None /\ Val(d.vendor_id) \in FLYDIGI_VENDOR_IDS

\* the debug log line formats vendor_id and product_id with :04x, which
\* raises TypeError on None
LogFormatRaises(d) == d.vendor_id = None \/ d.product_id = None

\* the chain of detection rules applied to one device
Detected(d) ==
    \/ is_bs2_product(d)
    \/ is_flydigi_manufacturer(d) /\ is_bs2_product(d)
    \/ is_flydigi_vendor(d) /\ is_bs2_product(d)
    \/ is_flydigi_manufacturer(d)
    \/ is_flydigi_vendor(d) /\ d.vendor_id # None /\ d.product_id # None

\* the for loop over the enumeration, from index i
RECURSIVE DetectLoop(_, _)
DetectLoop(devices, i) ==
    IF i > Len(devices) THEN NoDevice
    ELSE LET d == devices[i] IN
         IF LogFormatRaises(d) THEN Raised
         ELSE IF Detected(d)
         THEN [exc |-> FALSE, vid |-> d.vendor_id, pid |-> d.product_id,
               path |-> d.path]
         ELSE DetectLoop(devices, i + 1)

\* except Exception: return None, None, None
Uncaught(r) == r
CatchAll(r) == IF r.exc THEN NoDevice ELSE r

detect_bs2pro(env) ==
    IF env.mode = "unavailable" THEN NoDevice
    ELSE CatchAll(IF env.mode = "enumerate_fails" THEN Raised
                  ELSE DetectLoop(env.devices, 1))

\* ---- the enumerations fed to the locator ----
ProductStrings == {<<>>, <<"b", "s", "2", " ", "P", "r", "o">>,
                   <<"M", "o", "u", "s", "e">>}
ManufacturerStrings == {<<>>, <<"F", "l", "y", "d", "i", "g", "i">>}
IdPairs == {<<None, None>>, <<Some(FlydigiVid), None>>,
            <<Some(FlydigiVid), Some(1)>>, <<Some(1133), Some(1)>>}
Paths == {None, Some(<<"h", "i", "d", "r", "a", "w">>)}

DeviceEntries ==
    { [product_string |-> p, manufacturer_string |-> m, vendor_id |-> ids[1],
       product_id |-> ids[2], path |-> pa] :
        p \in ProductStrings, m \in ManufacturerStrings, ids \in IdPairs,
        pa \in Paths }

RECURSIVE SeqsUpTo(_, _)
SeqsUpTo(S, n) ==
    IF n = 0 THEN {<<>>}
    ELSE LET shorter == SeqsUpTo(S, n - 1) IN
         shorter \cup {Append(q, x) : q \in shorter, x \in S}

HidModes == {"ok", "unavailable", "enumerate_fails"}

DetInit ==
    /\ hid_env \in [mode : HidModes, devices : SeqsUpTo(DeviceEntries, MaxDevices)]
    /\ det = [done |-> FALSE, exc |-> FALSE, vid |-> None, pid |-> None,
              path |-> None]
    /\ SmartInit
    /\ CalcIdle
    /\ DecIdle
    /\ DevIdle
    /\ PubIdle
    /\ OpenIdle
    /\ TmIdle
    /\ ThIdle

Detect ==
    /\ ~det.done
    /\ LET r == detect_bs2pro(hid_env) IN
       det' = [done |-> TRUE, exc |-> r.exc, vid |-> r.vid, pid |-> r.pid,
               path |-> r.path]
    /\ UNCHANGED <<hid_env, smartVars, calcVars, decVars, devVars, pubVars, openVars, tmVars, thVars>>

DetNext == Detect

SpecDetect == DetInit /\ [][DetNext]_vars

\* a device satisfies one of the detection rules
SatisfiesARule(d) ==
    \/ Contains(<<"B", "S", "2">>, Upper(d.product_string))
    \/ Contains(<<"F", "L", "Y", "D", "I", "G", "I">>,
                Upper(d.manufacturer_string))
    \/ d.vendor_id = Some(14295) /\ d.product_id # None

\* C9: the locator never raises, and returns (None, None, None) whenever the
\* HID library is unavailable, the enumeration fails or no enumerated device
\* satisfies a detection rule, whatever the enumeration holds.
C9_LocatorTotal ==
    det.done =>
       /\ ~det.exc
       /\ ( \/ hid_env.mode # "ok"
            \/ \A i \in 1..Len(hid_env.devices) :
                  ~SatisfiesARule(hid_env.devices[i]) )
          => det.vid = None /\ det.pid = None /\ det.path = None

\* an enumeration without any matching device, holding an entry without ids
C9_Witness ==
    /\ det.done
    /\ hid_env.mode = "ok"
    /\ Len(hid_env.devices) = 2
    /\ hid_env.devices[1].vendor_id # None
    /\ hid_env.devices[1].product_id # None
    /\ hid_env.devices[2].vendor_id = None
    /\ \A i \in 1..2 : ~SatisfiesARule(hid_env.devices[i])
    /\ det.vid = None /\ det.pid = None /\ det.path = None

\* the product string of a device contains the marker, in any case
HasMarkerProduct(d) == Contains(<<"B", "S", "2">>, Upper(d.product_string))

\* the locator's result is the triple of device d
ReturnedIs(d) ==
    /\ det.vid = d.vendor_id
    /\ det.pid = d.product_id
    /\ det.path = d.path

\* C19: when some enumerated device has a product string containing the
\* marker, the locator returns a device whose product string contains the
\* marker, whatever the order of the enumeration; a device that matches only
\* by manufacturer name or by vendor id is not returned in its place. Stated
\* for the enumerations whose entries all carry a vendor id and a product id.
C19_MarkerWins ==
    ( /\ det.done
      /\ hid_env.mode = "ok"
      /\ \A i \in 1..Len(hid_env.devices) :
            ~LogFormatRaises(hid_env.devices[i])
      /\ \E i \in 1..Len(hid_env.devices) :
            HasMarkerProduct(hid_env.devices[i]) )
    => \E i \in 1..Len(hid_env.devices) :
          /\ HasMarkerProduct(hid_env.devices[i])
          /\ ReturnedIs(hid_env.devices[i])

-----------------------------------------------------------------------------
(* The device session: one shared handle used by send_command and by the   *)
(* telemetry thread, and the temporary handle of the command path          *)

Attempts == 5
LastAttempt == 4

\* bounds of the device session
MaxOpens == 2

\* hid.device() constructed but not opened
Unopened == [id |-> 0, method |-> "unopened"]

IsDirect(h) == h.method = "direct"
IsOpen(h) == h.id \in os_open

\* import hid / hasattr(hid, 'device') / hasattr(hid, 'open') / HIDAPI_DIRECT
LibConfigs ==
    { [hid |-> TRUE,  device |-> TRUE,  open |-> FALSE, direct |-> FALSE],
      [hid |-> TRUE,  device |-> FALSE, open |-> TRUE,  direct |-> FALSE],
      [hid |-> TRUE,  device |-> TRUE,  open |-> FALSE, direct |-> TRUE],
      [hid |-> FALSE, device |-> FALSE, open |-> FALSE, direct |-> FALSE] }

\* what one detect_bs2pro call reports
Sightings == {"path", "nopath", "absent"}
Found(sight) == lib.hid /\ sight # "absent"
HasPath(sight) == sight = "path"

\* what the open calls of one pass over the opening methods do
OpenOutcomes ==
    [open_path : BOOLEAN, direct : BOOLEAN,
     hid_open : {"ok", "none", "raise"}, device_open : BOOLEAN]

\* the outcomes the library at hand can tell apart: an open call the library
\* does not offer is never made, so its outcome is fixed
Outcomes ==
    { o \in OpenOutcomes :
        /\ ~lib.device => (~o.open_path /\ ~o.device_open)
        /\ ~lib.direct => ~o.direct
        /\ ~lib.open => o.hid_open = "none" }

\* _get_shared_device runs detect_bs2pro only while shared_device is None
SharedSightings == IF shared_device = NoHandle THEN Sightings ELSE {"absent"}

\* the system hands out handle next_id + 1, while it has handles left
CanOpen == next_id < MaxOpens

\* one pass over the opening methods has made the open call m
Tried(s, m, ok) == Append(s.tried, [m |-> m, ok |-> ok])

\* Methods 0..3 with Method 3 attempted whatever came before
create_shared_unguarded(has_path, o) ==
    LET new(s, m) == [created |-> TRUE, sd |-> Handle(next_id + 1, m),
                      tried |-> Tried(s, m, TRUE)]
        failed(s, m, left) == [created |-> FALSE, sd |-> left,
                               tried |-> Tried(s, m, FALSE)]
        s0 == [created |-> FALSE, sd |-> NoHandle, tried |-> <<>>]
        s1 == IF lib.device /\ has_path
              THEN IF o.open_path /\ CanOpen THEN new(s0, "open_path")
                   ELSE failed(s0, "open_path", Unopened)
              ELSE s0
        s2 == IF lib.direct /\ ~s1.created
              THEN IF o.direct /\ CanOpen THEN new(s1, "direct")
                   ELSE failed(s1, "direct", s1.sd)
              ELSE s1
        s3 == IF lib.open /\ ~s2.created
              THEN IF o.hid_open = "ok" /\ CanOpen THEN new(s2, "hid_open")
                   ELSE IF o.hid_open = "raise"
                        THEN failed(s2, "hid_open", s2.sd)
                   ELSE failed(s2, "hid_open", NoHandle)
              ELSE s2
        s4 == IF lib.device
              THEN IF o.device_open /\ CanOpen THEN new(s3, "device_open")
                   ELSE failed(s3, "device_open", NoHandle)
              ELSE s3
    IN s4

\* Methods 0..3 of _get_shared_device: the value left in shared_device, the
\* device_created flag and the open calls made, in order
create_shared(has_path, o) ==
    LET new(s, m) == [created |-> TRUE, sd |-> Handle(next_id + 1, m),
                      tried |-> Tried(s, m, TRUE)]
        failed(s, m, left) == [created |-> FALSE, sd |-> left,
                               tried |-> Tried(s, m, FALSE)]
        s0 == [created |-> FALSE, sd |-> NoHandle, tried |-> <<>>]
        s1 == IF lib.device /\ has_path
              THEN IF o.open_path /\ CanOpen THEN new(s0, "open_path")
                   ELSE failed(s0, "open_path", Unopened)
              ELSE s0
        s2 == IF lib.direct /\ ~s1.created
              THEN IF o.direct /\ CanOpen THEN new(s1, "direct")
                   ELSE failed(s1, "direct", s1.sd)
              ELSE s1
        s3 == IF lib.open /\ ~s2.created
              THEN IF o.hid_open = "ok" /\ CanOpen THEN new(s2, "hid_open")
                   ELSE IF o.hid_open = "raise"
                        THEN failed(s2, "hid_open", s2.sd)
                   ELSE failed(s2, "hid_open", NoHandle)
              ELSE s2
        s4 == IF lib.device /\ ~s3.created
              THEN IF o.device_open /\ CanOpen THEN new(s3, "device_open")
                   ELSE failed(s3, "device_open", NoHandle)
              ELSE s3
    IN s4

\* the body of _get_shared_device, run with device_lock held:
\* [sd: the new shared_device, ret: the value returned, opened]
get_shared_device(sight, o) ==
    IF shared_device # NoHandle
    THEN [sd |-> shared_device, ret |-> shared_device, opened |-> FALSE]
    ELSE IF ~Found(sight)
    THEN [sd |-> NoHandle, ret |-> NoHandle, opened |-> FALSE]
    ELSE LET s == create_shared(HasPath(sight), o) IN
         [sd |-> s.sd,
          ret |-> IF ~s.created \/ s.sd = NoHandle THEN NoHandle ELSE s.sd,
          opened |-> s.created]

\* "with self.device_lock" entered although another thread holds the lock
AcquireUnlocked(t) == device_lock' = t

\* thread t enters "with self.device_lock"
Acquire(t) ==
    /\ device_lock = "free"
    /\ device_lock' = t

\* thread t runs the body of _get_shared_device and leaves the lock
GetShared(t, r) ==
    /\ device_lock = t
    /\ device_lock' = "free"
    /\ shared_device' = r.sd
    /\ os_open' = IF r.opened THEN os_open \cup {next_id + 1} ELSE os_open
    /\ next_id' = IF r.opened THEN next_id + 1 ELSE next_id
    /\ demanded' = TRUE

\* thread t runs the body of _release_shared_device and leaves the lock
release_shared_device(t) ==
    /\ device_lock = t
    /\ device_lock' = "free"
    /\ shared_device' = NoHandle
    /\ os_open' = os_open \ {shared_device.id}
    /\ UNCHANGED <<next_id, demanded>>

\* ---- RPMMonitor._monitor_loop, run by telemetry thread t ----

ReadOutcomes == {"data", "nodata", "error"}

\* a read can deliver data from an open handle; on a closed direct handle
\* the C library call has no defined outcome
CanDeliver(h) == IsOpen(h) \/ IsDirect(h)

\* the loop test, then either the final _close_device, the branch to
\* _open_device, or the first read of the iteration
MonLoop(t) ==
    /\ m_pc[t] = "loop"
    /\ IF ~is_monitoring
       THEN /\ m_pc' = [m_pc EXCEPT ![t] = IF mon_device # NoHandle
                                            THEN "rel_lock" ELSE "off"]
            /\ UNCHANGED m_io
       ELSE IF mon_device = NoHandle
       THEN /\ m_pc' = [m_pc EXCEPT ![t] = "open_lock"]
            /\ UNCHANGED m_io
       ELSE /\ m_pc' = [m_pc EXCEPT ![t] = "reading1"]
            /\ m_io' = [m_io EXCEPT ![t] = mon_device]
    /\ UNCHANGED <<lib, sharedVars, is_monitoring, mon_device, monitor_thread,
                   cmd, ctl_pc>>

\* _open_device -> _get_shared_device: waiting for the lock
MonOpenLock(t) ==
    /\ m_pc[t] = "open_lock"
    /\ Acquire(t)
    /\ m_pc' = [m_pc EXCEPT ![t] = "open_locked"]
    /\ UNCHANGED <<lib, shared_device, os_open, next_id, demanded, is_monitoring,
                   mon_device, monitor_thread, m_io, cmd, ctl_pc>>

\* _open_device: self.device = get_shared_device_func(), then the first read
\* of the iteration, or the retry after a failure
MonOpenBody(t, sight, o) ==
    /\ m_pc[t] = "open_locked"
    /\ LET r == get_shared_device(sight, o) IN
       /\ GetShared(t, r)
       /\ mon_device' = r.ret
       /\ IF r.ret = NoHandle
          THEN /\ m_pc' = [m_pc EXCEPT ![t] = "loop"]
               /\ UNCHANGED m_io
          ELSE /\ m_pc' = [m_pc EXCEPT ![t] = "reading1"]
               /\ m_io' = [m_io EXCEPT ![t] = r.ret]
    /\ UNCHANGED <<lib, is_monitoring, monitor_thread, cmd, ctl_pc>>

\* the first read returns; without data the alternative read starts on
\* whatever self.device holds by then
MonRead1End(t, outcome) ==
    /\ m_pc[t] = "reading1"
    /\ outcome = "data" => CanDeliver(m_io[t])
    /\ IF outcome = "data" \/ mon_device = NoHandle
       THEN /\ m_pc' = [m_pc EXCEPT ![t] = "loop"]
            /\ m_io' = [m_io EXCEPT ![t] = NoHandle]
       ELSE /\ m_pc' = [m_pc EXCEPT ![t] = "reading2"]
            /\ m_io' = [m_io EXCEPT ![t] = mon_device]
    /\ UNCHANGED <<lib, sharedVars, is_monitoring, mon_device, monitor_thread,
                   cmd, ctl_pc>>

\* the alternative read returns
MonRead2End(t, outcome) ==
    /\ m_pc[t] = "reading2"
    /\ outcome = "data" => CanDeliver(m_io[t])
    /\ m_pc' = [m_pc EXCEPT ![t] = "loop"]
    /\ m_io' = [m_io EXCEPT ![t] = NoHandle]
    /\ UNCHANGED <<lib, sharedVars, is_monitoring, mon_device, monitor_thread,
                   cmd, ctl_pc>>

\* _close_device after the loop: waiting for the lock of the release
MonRelLock(t) ==
    /\ m_pc[t] = "rel_lock"
    /\ Acquire(t)
    /\ m_pc' = [m_pc EXCEPT ![t] = "rel_locked"]
    /\ UNCHANGED <<lib, shared_device, os_open, next_id, demanded, is_monitoring,
                   mon_device, monitor_thread, m_io, cmd, ctl_pc>>

\* _close_device after the loop: the release, self.device = None, thread end
MonRelBody(t) ==
    /\ m_pc[t] = "rel_locked"
    /\ release_shared_device(t)
    /\ mon_device' = NoHandle
    /\ m_pc' = [m_pc EXCEPT ![t] = "off"]
    /\ UNCHANGED <<lib, is_monitoring, monitor_thread, m_io, cmd, ctl_pc>>

\* ---- RPMMonitor.start_monitoring / stop_monitoring ----

\* threading.Thread(...): the thread object that is created next
NewThread == CHOOSE t \in MonIds : \A u \in MonIds : m_pc[u] = "off" => m_pc[t] = "off"

\* start_monitoring when the monitor's own detection finds the device: a
\* new thread t is created and started
start_monitoring(t) ==
    /\ ctl_pc = "idle"
    /\ ~is_monitoring
    /\ lib.hid
    /\ m_pc[t] = "off"
    /\ is_monitoring' = TRUE
    /\ monitor_thread' = t
    /\ m_pc' = [m_pc EXCEPT ![t] = "loop"]
    /\ UNCHANGED <<lib, sharedVars, mon_device, m_io, cmd, ctl_pc>>

\* stop_monitoring: clear the flag, then join the thread
stop_monitoring ==
    /\ ctl_pc = "idle"
    /\ is_monitoring
    /\ is_monitoring' = FALSE
    /\ ctl_pc' = "join"
    /\ demanded' = FALSE
    /\ UNCHANGED <<lib, shared_device, device_lock, os_open, next_id,
                   mon_device, monitor_thread, m_pc, m_io, cmd>>

\* join(timeout=2) returns, because the thread ended or the time ran out,
\* and _close_device starts
StopJoin(timed_out) ==
    /\ ctl_pc = "join"
    /\ timed_out \/ m_pc[monitor_thread] = "off"
    /\ ctl_pc' = IF mon_device # NoHandle THEN "rel_lock" ELSE "idle"
    /\ UNCHANGED <<lib, sharedVars, monVars, cmd>>

StopRelLock ==
    /\ ctl_pc = "rel_lock"
    /\ Acquire("ctl")
    /\ ctl_pc' = "rel_locked"
    /\ UNCHANGED <<lib, shared_device, os_open, next_id, demanded, monVars, cmd>>

StopRelBody ==
    /\ ctl_pc = "rel_locked"
    /\ release_shared_device("ctl")
    /\ mon_device' = NoHandle
    /\ ctl_pc' = "idle"
    /\ UNCHANGED <<lib, is_monitoring, monitor_thread, m_pc, m_io, cmd>>

\* ---- BS2ProController.send_command, run by the command thread ----

\* the call returns: one status_callback(message, severity) and the result
Finish(c, message, severity, result) ==
    [c EXCEPT !.pc = "idle", !.dev = NoHandle, !.message = message,
              !.sink = Append(@, severity), !.result = result]

\* status_callback("Command sent successfully", "success"); return True
Sent(c) == Finish(c, "sent", "success", "true")

\* "if attempt < 4: sleep, continue; else: report the error, return False"
Retry(c, message) ==
    IF c.attempt < LastAttempt
    THEN [c EXCEPT !.pc = "try", !.dev = NoHandle, !.attempt = @ + 1]
    ELSE Finish(c, message, "danger", "false")

\* "BS2PRO device not found": reported at once, without another attempt
NotFoundRetried(c) == Retry(c, "not_found")
NotFound(c) == Finish(c, "not_found", "danger", "false")

\* the call starts with attempt 0; without the HID library it ends at once
send_command ==
    /\ cmd.pc = "idle"
    /\ cmd' = IF lib.hid THEN [IdleCmd EXCEPT !.pc = "try"]
              ELSE Finish(IdleCmd, "hid_unavailable", "danger", "false")
    /\ UNCHANGED <<lib, sharedVars, monVars, ctl_pc>>

\* dev = self._get_shared_device(): waiting for the lock
CmdLock ==
    /\ cmd.pc = "try"
    /\ Acquire("cmd")
    /\ cmd' = [cmd EXCEPT !.pc = "locked"]
    /\ UNCHANGED <<lib, shared_device, os_open, next_id, demanded, monVars,
                   ctl_pc>>

\* dev = self._get_shared_device(): the body; "if dev" chooses the path
CmdGetBody(sight, o) ==
    /\ cmd.pc = "locked"
    /\ LET r == get_shared_device(sight, o) IN
       /\ GetShared("cmd", r)
       /\ cmd' = IF r.ret # NoHandle
                 THEN [cmd EXCEPT !.pc = "have_dev", !.dev = r.ret]
                 ELSE [cmd EXCEPT !.pc = "no_dev"]
    /\ UNCHANGED <<lib, monVars, ctl_pc>>

\* shared path: the write is issued
CmdWriteBegin ==
    /\ cmd.pc = "have_dev"
    /\ cmd' = [cmd EXCEPT !.pc = "writing"]
    /\ UNCHANGED <<lib, sharedVars, monVars, ctl_pc>>

\* shared path: the write returns. A regular handle raises on failure; the
\* direct handle returns a count, and only a positive count leads to the
\* acknowledgement read
CmdWriteEnd(ok) ==
    /\ cmd.pc = "writing"
    /\ ok => CanDeliver(cmd.dev)
    /\ cmd' = IF ok
              THEN [cmd EXCEPT !.pc = "acking", !.writes_ok = @ + 1]
              ELSE LET c == [cmd EXCEPT !.write_failed = TRUE] IN
                   IF IsDirect(cmd.dev) THEN Sent(c)
                   ELSE Retry(c, "hid_error")
    /\ UNCHANGED <<lib, sharedVars, monVars, ctl_pc>>

\* shared path: the acknowledgement read returns. A regular handle may raise
\* (the attempt fails); the direct handle returns a count nobody looks at
CmdAckEnd(raises) ==
    /\ cmd.pc = "acking"
    /\ (~IsDirect(cmd.dev) /\ ~IsOpen(cmd.dev)) => raises
    /\ cmd' = IF raises /\ ~IsDirect(cmd.dev) THEN Retry(cmd, "hid_error")
              ELSE Sent(cmd)
    /\ UNCHANGED <<lib, sharedVars, monVars, ctl_pc>>

\* temporary path, Methods 0..3: the API that opens the device, if any
temp_open_method(has_path, o) ==
    IF ~CanOpen THEN "none"
    ELSE IF lib.device /\ has_path /\ o.open_path THEN "open_path"
    ELSE IF lib.direct /\ o.direct THEN "direct"
    ELSE IF lib.open /\ o.hid_open = "ok" THEN "hid_open"
    ELSE IF lib.device /\ o.device_open THEN "device_open"
    ELSE "none"

\* temporary path: detect_bs2pro, then the open of the first method that works
CmdTempOpen(sight, o) ==
    /\ cmd.pc = "no_dev"
    /\ LET m == temp_open_method(HasPath(sight), o)
           c == [cmd EXCEPT !.no_write = TRUE] IN
       IF ~Found(sight)
       THEN /\ cmd' = NotFound(c)
            /\ UNCHANGED <<os_open, next_id>>
       ELSE IF m = "none"
       THEN /\ cmd' = Retry(c, "open_failed")
            /\ UNCHANGED <<os_open, next_id>>
       ELSE /\ cmd' = [cmd EXCEPT !.pc = "temp_io",
                                  !.dev = Handle(next_id + 1, m)]
            /\ os_open' = os_open \cup {next_id + 1}
            /\ next_id' = next_id + 1
    /\ UNCHANGED <<lib, shared_device, device_lock, demanded, monVars, ctl_pc>>

\* does the method that opened the temporary handle reach its close call
temp_closed(method, write_ok, read_raises) ==
    IF method = "direct" THEN TRUE
    ELSE IF method = "open_path" THEN write_ok
    ELSE write_ok /\ ~read_raises

\* temporary path: write, acknowledgement read and close of the method that
\* set device_opened; an exception inside is caught by the method, the later
\* methods are skipped, and the call reports success. A handle that was not
\* closed is closed by the library's finalizer, if it has one
CmdTempIo(write_ok, read_raises, finalized) ==
    /\ cmd.pc = "temp_io"
    /\ LET closed == temp_closed(cmd.dev.method, write_ok, read_raises)
           c == IF write_ok THEN [cmd EXCEPT !.writes_ok = @ + 1]
                ELSE [cmd EXCEPT !.write_failed = TRUE] IN
       /\ cmd' = Sent(c)
       /\ os_open' = IF closed \/ finalized THEN os_open \ {cmd.dev.id}
                     ELSE os_open
    /\ UNCHANGED <<lib, shared_device, device_lock, next_id, demanded, monVars,
                   ctl_pc>>

\* ---- the device session as a whole ----

DevInit ==
    /\ lib \in LibConfigs
    /\ DevFieldsInit
    /\ SmartInit
    /\ CalcIdle
    /\ DecIdle
    /\ DetIdle
    /\ PubIdle
    /\ OpenIdle
    /\ TmIdle
    /\ ThIdle

\* the rest of the program is not running
OthersIdle == UNCHANGED <<smartVars, calcVars, decVars, detVars, pubVars, openVars, tmVars, thVars>>

DevNext ==
    \/ \E t \in MonIds : MonLoop(t) /\ OthersIdle
    \/ \E t \in MonIds : MonOpenLock(t) /\ OthersIdle
    \/ \E t \in MonIds, sight \in SharedSightings, o \in Outcomes :
          MonOpenBody(t, sight, o) /\ OthersIdle
    \/ \E t \in MonIds, outcome \in ReadOutcomes :
          MonRead1End(t, outcome) /\ OthersIdle
    \/ \E t \in MonIds, outcome \in ReadOutcomes :
          MonRead2End(t, outcome) /\ OthersIdle
    \/ \E t \in MonIds : MonRelLock(t) /\ OthersIdle
    \/ \E t \in MonIds : MonRelBody(t) /\ OthersIdle
    \/ start_monitoring(NewThread) /\ OthersIdle
    \/ stop_monitoring /\ OthersIdle
    \/ \E timed_out \in BOOLEAN : StopJoin(timed_out) /\ OthersIdle
    \/ StopRelLock /\ OthersIdle
    \/ StopRelBody /\ OthersIdle
    \/ send_command /\ OthersIdle
    \/ CmdLock /\ OthersIdle
    \/ \E sight \in SharedSightings, o \in Outcomes :
          CmdGetBody(sight, o) /\ OthersIdle
    \/ CmdWriteBegin /\ OthersIdle
    \/ \E ok \in BOOLEAN : CmdWriteEnd(ok) /\ OthersIdle
    \/ \E raises \in BOOLEAN : CmdAckEnd(raises) /\ OthersIdle
    \/ \E sight \in Sightings, o \in Outcomes :
          CmdTempOpen(sight, o) /\ OthersIdle
    \/ \E write_ok \in BOOLEAN, read_raises \in BOOLEAN, finalized \in BOOLEAN :
          CmdTempIo(write_ok, read_raises, finalized) /\ OthersIdle

SpecDev == DevInit /\ [][DevNext]_vars

-----------------------------------------------------------------------------
(* Properties of the device session *)

\* telemetry thread t has a read in progress on handle h
MonReading(t, h) == m_pc[t] \in {"reading1", "reading2"} /\ m_io[t] = h

\* the command path has a write or an acknowledgement read in progress on
\* the shared handle it was given
CmdSharedIo == cmd.pc \in {"writing", "acking"}

\* C1 (as claimed): I/O on the shared handle is mutually exclusive: a read of
\* the telemetry thread is never in progress on the handle while the command
\* path's write or acknowledgement read is in progress on that same handle.
C1_ExclusiveIO ==
    \A t \in MonIds : ~(CmdSharedIo /\ MonReading(t, cmd.dev))

\* a finished send_command call in which every attempt located and opened
\* the device and every write failed
EveryWriteFailed ==
    /\ cmd.pc = "idle"
    /\ cmd.result # "none"
    /\ lib.hid
    /\ cmd.write_failed
    /\ cmd.writes_ok = 0
    /\ ~cmd.no_write

\* C2 (as claimed): when the device can be located and opened but every write
\* fails, send_command makes exactly 5 attempts, calls the status sink exactly
\* once, with severity danger, and returns False, on the shared handle and on
\* a temporary handle alike.
C2_FiveAttemptsThenDanger ==
    EveryWriteFailed =>
        /\ cmd.attempt + 1 = Attempts
        /\ cmd.sink = <<"danger">>
        /\ cmd.result = "false"

\* C10 (as claimed): at most one handle to the device is open at the
\* operating system at a time.
C10_OneOpenHandle == Cardinality(os_open) <= 1

\* stop_monitoring has been called and has returned, and the telemetry
\* thread has left _monitor_loop
Stopped ==
    /\ monitor_thread # "none"
    /\ ~is_monitoring
    /\ ctl_pc = "idle"
    /\ \A t \in MonIds : m_pc[t] = "off"

\* C11 (as claimed): once stop_monitoring has returned and the monitor loop
\* has exited, and as long as nothing has asked for the shared handle since
\* that stop was called, shared_device is None and the handle is closed,
\* whichever thread created the handle.
C11_StopReleases ==
    (Stopped /\ ~demanded) =>
        /\ shared_device = NoHandle
        /\ ~IsOpen(shared_device)

\* C22: a read of the telemetry thread that raises is followed by the close
\* of the device, not by another read on the handle: the thread neither
\* starts the alternative read nor goes back to the loop test with
\* monitor.device still set.
C22_ReadErrorCloses ==
    [][\A t \in MonIds :
          /\ (MonRead1End(t, "error") /\ mon_device # NoHandle)
                => m_pc'[t] # "reading2"
          /\ (MonRead2End(t, "error") /\ mon_device # NoHandle)
                => (m_pc'[t] # "loop" \/ mon_device' = NoHandle)]_vars

\* C26: no read or write is in progress on a shared handle that
\* _release_shared_device has closed: the handle send_command is writing to
\* or reading the acknowledgement from is open, and so is the handle a
\* telemetry thread is reading from.
C26_NoUseAfterClose ==
    /\ CmdSharedIo => IsOpen(cmd.dev)
    /\ \A t \in MonIds :
          m_pc[t] \in {"reading1", "reading2"} => IsOpen(m_io[t])

-----------------------------------------------------------------------------
(* send_command on its own, against what is plugged in: the enumeration is *)
(* fixed for the call, and a handle may be left from an earlier session    *)

\* what detect_bs2pro reports to its caller for an enumeration: the caller
\* tests "vid is None or pid is None" and then "if device_path"
sight_of(env) ==
    LET r == detect_bs2pro(env) IN
    IF r.vid = None \/ r.pid = None THEN "absent"
    ELSE IF r.path # None /\ Val(r.path) # <<>> THEN "path"
    ELSE "nopath"

\* an enumeration entry of the cooler, and one of another device
Bs2Entry(pa) ==
    [product_string |-> <<"b", "s", "2", " ", "P", "r", "o">>,
     manufacturer_string |-> <<>>, vendor_id |-> Some(FlydigiVid),
     product_id |-> Some(1), path |-> pa]
MouseEntry ==
    [product_string |-> <<"M", "o", "u", "s", "e">>,
     manufacturer_string |-> <<>>, vendor_id |-> Some(1133),
     product_id |-> Some(1), path |-> None]

\* nothing plugged in, another device only, the cooler with or without a path
SendEnumerations ==
    { <<>>, <<MouseEntry>> } \cup { <<MouseEntry, Bs2Entry(pa)>> : pa \in Paths }

\* the device answers I/O only while it is plugged in
DevicePresent == sight_of(hid_env) # "absent"

\* the shared handles an earlier call or monitoring session can have left
LeftHandles ==
    {NoHandle}
      \cup (IF lib.device THEN {Handle(1, "open_path"), Handle(1, "device_open")}
            ELSE {})
      \cup (IF lib.direct THEN {Handle(1, "direct")} ELSE {})
      \cup (IF lib.open THEN {Handle(1, "hid_open")} ELSE {})

SendInit ==
    /\ lib \in LibConfigs
    /\ hid_env \in [mode : {"ok", "unavailable"}, devices : SendEnumerations]
    /\ (hid_env.mode = "unavailable") <=> ~lib.hid
    /\ det = [done |-> FALSE, exc |-> FALSE, vid |-> None, pid |-> None,
              path |-> None]
    /\ shared_device \in LeftHandles
    /\ os_open = IF shared_device = NoHandle THEN {} ELSE {shared_device.id}
    /\ next_id = shared_device.id
    /\ demanded = (shared_device # NoHandle)
    /\ device_lock = "free"
    /\ is_monitoring = FALSE
    /\ mon_device = NoHandle
    /\ monitor_thread = "none"
    /\ m_pc = [t \in MonIds |-> "off"]
    /\ m_io = [t \in MonIds |-> NoHandle]
    /\ cmd = IdleCmd
    /\ ctl_pc = "idle"
    /\ SmartInit
    /\ CalcIdle
    /\ DecIdle
    /\ PubIdle
    /\ OpenIdle
    /\ TmIdle
    /\ ThIdle

SendNext ==
    \/ send_command /\ OthersIdle
    \/ CmdLock /\ OthersIdle
    \/ \E o \in Outcomes : CmdGetBody(sight_of(hid_env), o) /\ OthersIdle
    \/ CmdWriteBegin /\ OthersIdle
    \/ \E ok \in BOOLEAN :
          (ok => DevicePresent) /\ CmdWriteEnd(ok) /\ OthersIdle
    \/ \E raises \in BOOLEAN : CmdAckEnd(raises) /\ OthersIdle
    \/ \E o \in Outcomes : CmdTempOpen(sight_of(hid_env), o) /\ OthersIdle
    \/ \E write_ok \in BOOLEAN, read_raises \in BOOLEAN, finalized \in BOOLEAN :
          /\ write_ok => DevicePresent
          /\ CmdTempIo(write_ok, read_raises, finalized)
          /\ OthersIdle

SpecSend == SendInit /\ [][SendNext]_vars

\* the send_command call has returned
Returned == cmd.pc = "idle" /\ cmd.result # "none"

\* the call made one attempt, without a sleep, and reported "device not
\* found" once
NotFoundAtOnce ==
    /\ cmd.attempt = 0
    /\ cmd.sink = <<"danger">>
    /\ cmd.message = "not_found"
    /\ cmd.result = "false"

C23_AckFailureIgnored ==
    /\ [][(CmdAckEnd(TRUE) /\ cmd.writes_ok >= 1) => cmd' = Sent(cmd)]_vars
    /\ [](cmd.writes_ok <= 1)

\* C25: a call that reported success and returned True has written the
\* frame: one of its write calls completed without error and, on the direct
\* binding, wrote more than 0 bytes; on the shared handle and on a temporary
\* handle of any opening method.
C25_SuccessMeansWritten ==
    (Returned /\ cmd.result = "true")
        => /\ cmd.writes_ok >= 1
           /\ cmd.sink = <<"success">>

-----------------------------------------------------------------------------
(* RPMMonitor: the monitor loop decodes a frame it has read and publishes  *)
(* a change to the subscribers                                            *)

\* bounds of the publication model
MaxSubscribers == 2
MaxFrames == 3

\* frames the device sends: 1200 RPM in two different frames, 2500 RPM, a
\* frame without the marker and a frame without any plausible value
PubFrames ==
    { Frame(16, Marker, 0, 1200, 0, <<0, 0, 0>>),
      Frame(12, Marker, 255, 1200, 0, <<0, 0, 0>>),
      Frame(16, Marker, 0, 2500, 0, <<0, 0, 0>>),
      Frame(16, <<3, 90, 0>>, 0, 1200, 0, <<0, 0, 0>>),
      Frame(16, Marker, 0, 0, 0, <<0, 0, 0>>) }

\* how a subscriber behaves when called
Behaviours == {"ok", "raises"}

\* "try: callback(rpm) except Exception: log": does the loop over the
\* callbacks go on after a callback that behaved like b
NotIsolated(b) == b # "raises"
Isolated(b) == TRUE

\* _notify_callbacks(rpm) from callback i on: what the subscribers have heard
\* afterwards, and whether an exception left the function
RECURSIVE notify_callbacks(_, _, _, _)
notify_callbacks(cbs, i, rpm, h) ==
    IF i > Len(cbs) THEN [heard |-> h, exc |-> FALSE]
    ELSE LET h1 == [h EXCEPT ![i] = Append(@, rpm)] IN
         IF Isolated(cbs[i]) THEN notify_callbacks(cbs, i + 1, rpm, h1)
         ELSE [heard |-> h1, exc |-> TRUE]

\* "rpm is not None and rpm != self.current_rpm"
ChangedOrSame(rpm) == rpm # None
Changed(rpm) == rpm # None /\ Val(rpm) # current_rpm

add_callback(b) ==
    /\ Len(callbacks) < MaxSubscribers
    /\ callbacks' = Append(callbacks, b)
    /\ heard' = Append(heard, <<>>)
    /\ UNCHANGED <<current_rpm, pub>>

\* one iteration of _monitor_loop that has read the non-empty frame d: decode,
\* and on a change store and publish it. An exception leaving
\* _notify_callbacks would end the iteration in the loop's error handler
Receive(d) ==
    /\ pub.frames < MaxFrames
    /\ LET rpm == decode_rpm_data(d).ret IN
       IF Changed(rpm)
       THEN LET n == notify_callbacks(callbacks, 1, Val(rpm), heard) IN
            /\ current_rpm' = Val(rpm)
            /\ heard' = n.heard
            /\ pub' = [frames |-> pub.frames + 1, last |-> rpm,
                       log |-> Append(pub.log, Val(rpm)), error |-> n.exc]
       ELSE /\ pub' = [pub EXCEPT !.frames = @ + 1, !.last = rpm,
                                  !.error = FALSE]
            /\ UNCHANGED <<current_rpm, heard>>
    /\ UNCHANGED callbacks

PubInit ==
    /\ PubIdle
    /\ OpenIdle
    /\ TmIdle
    /\ ThIdle
    /\ SmartInit
    /\ CalcIdle
    /\ DecIdle
    /\ DetIdle
    /\ DevIdle

PubRest ==
    UNCHANGED <<smartVars, calcVars, decVars, detVars, devVars, openVars, tmVars, thVars>>

PubNext ==
    \/ \E b \in Behaviours : add_callback(b) /\ PubRest
    \/ \E d \in PubFrames : Receive(d) /\ PubRest

SpecPublish == PubInit /\ [][PubNext]_vars

\* C14: when a change is published, every registered subscriber is called
\* with the new value, also those registered after one that raises;
\* current_rpm holds the new value and the iteration ends normally, so the
\* loop goes on with its next iteration.
C14_SubscriberIsolation ==
    [][\A d \in PubFrames :
          (Receive(d) /\ Len(pub'.log) > Len(pub.log)) =>
              /\ current_rpm' = Val(decode_rpm_data(d).ret)
              /\ \A i \in 1..Len(callbacks) :
                    heard'[i] = Append(heard[i], current_rpm')
              /\ ~pub'.error]_vars

\* a subscriber that raises is registered before one that does not, and
\* both were called with each of two published values
C14_Witness ==
    /\ callbacks = <<"raises", "ok">>
    /\ heard = << <<1200, 2500>>, <<1200, 2500>> >>
    /\ current_rpm = 2500
    /\ ~pub.error

Last(q) == q[Len(q)]

\* C15: the subscribers are called exactly when the frame decodes to a value
\* that is not None and differs from current_rpm; no subscriber hears the
\* same value twice in a row; current_rpm is the last published value, and
\* 0 before the first publication.
C15_PublishesChanges ==
    /\ [][\A d \in PubFrames :
            LET rpm == decode_rpm_data(d).ret
                n == IF rpm # None /\ Val(rpm) # current_rpm THEN 1 ELSE 0
            IN Receive(d) =>
                 /\ \A i \in 1..Len(callbacks) :
                       Len(heard'[i]) = Len(heard[i]) + n
                 /\ Len(pub'.log) = Len(pub.log) + n]_vars
    /\ [](\A i \in 1..Len(heard) :
             /\ \A k \in 1..(Len(heard[i]) - 1) : heard[i][k] # heard[i][k + 1]
             /\ heard[i] # <<>> => Last(heard[i]) = current_rpm)
    /\ [](current_rpm = IF pub.log = <<>> THEN 0 ELSE Last(pub.log))

\* the value published first arrived again, in a different frame, after
\* another value had been published in between, and then once more
C15_Witness ==
    /\ callbacks # <<>>
    /\ heard[1] = <<1200, 2500>>
    /\ pub.frames = 3
    /\ pub.last = Some(2500)
    /\ current_rpm = 2500

-----------------------------------------------------------------------------
(* _get_shared_device and _release_shared_device called by two threads,    *)
(* step by step: entering the lock, the test of shared_device, the pass    *)
(* over the opening methods, the release                                   *)

\* every library a build can meet: hid missing, or hid with any of
\* hid.device, hid.open and the direct binding
OpenLibConfigs ==
    { l \in [hid : BOOLEAN, device : BOOLEAN, open : BOOLEAN, direct : BOOLEAN] :
        ~l.hid => (~l.device /\ ~l.open /\ ~l.direct) }

OpenCalls == {"get", "release"}

InBody(t) == caller[t].pc \in {"body", "create"}

\* thread t calls _get_shared_device or _release_shared_device
OpenCall(t, op) ==
    /\ caller[t].pc = "idle"
    /\ caller' = [caller EXCEPT ![t] = [pc |-> "lock", op |-> op,
                                        ret |-> NoHandle]]
    /\ UNCHANGED <<lib, sharedVars, open_log, contended>>

\* thread t enters the lock
OpenLock(t) ==
    /\ caller[t].pc = "lock"
    /\ Acquire(t)
    /\ caller' = [caller EXCEPT ![t].pc = "body"]
    /\ UNCHANGED <<lib, shared_device, os_open, next_id, demanded, open_log,
                   contended>>

\* "if self.shared_device is None": an existing handle is returned at once
OpenCheck(t) ==
    /\ caller[t].pc = "body"
    /\ caller[t].op = "get"
    /\ IF shared_device # NoHandle
       THEN /\ caller' = [caller EXCEPT ![t].pc = "idle",
                                        ![t].ret = shared_device]
            /\ device_lock' = "free"
       ELSE /\ caller' = [caller EXCEPT ![t].pc = "create"]
            /\ UNCHANGED device_lock
    /\ demanded' = TRUE
    /\ UNCHANGED <<lib, shared_device, os_open, next_id, open_log, contended>>

\* detect_bs2pro and the pass over the opening methods, then the return
OpenCreate(t, sight, o) ==
    /\ caller[t].pc = "create"
    /\ LET s == create_shared(HasPath(sight), o)
           ret == IF ~Found(sight) \/ ~s.created \/ s.sd = NoHandle
                  THEN NoHandle ELSE s.sd
       IN /\ shared_device' = IF Found(sight) THEN s.sd ELSE shared_device
          /\ os_open' = IF Found(sight) /\ s.created
                        THEN os_open \cup {next_id + 1} ELSE os_open
          /\ next_id' = IF Found(sight) /\ s.created
                        THEN next_id + 1 ELSE next_id
          /\ open_log' = [sight |-> sight,
                          tried |-> IF Found(sight) THEN s.tried ELSE <<>>,
                          ret |-> ret]
          /\ caller' = [caller EXCEPT ![t].pc = "idle", ![t].ret = ret]
    /\ contended' = (contended \/ \E u \in Callers \ {t} :
                                     caller[u].pc = "lock" /\ caller[u].op = "get")
    /\ device_lock' = "free"
    /\ UNCHANGED <<lib, demanded>>

\* the body of _release_shared_device
OpenRelease(t) ==
    /\ caller[t].pc = "body"
    /\ caller[t].op = "release"
    /\ shared_device' = NoHandle
    /\ os_open' = os_open \ {shared_device.id}
    /\ device_lock' = "free"
    /\ caller' = [caller EXCEPT ![t].pc = "idle"]
    /\ contended' = FALSE
    /\ UNCHANGED <<lib, next_id, demanded, open_log>>

OpenInit ==
    /\ lib \in OpenLibConfigs
    /\ DevFieldsInit
    /\ OpenIdle
    /\ TmIdle
    /\ ThIdle
    /\ PubIdle
    /\ SmartInit
    /\ CalcIdle
    /\ DecIdle
    /\ DetIdle

OpenRest ==
    UNCHANGED <<smartVars, calcVars, decVars, detVars, monVars, cmd, ctl_pc,
                pubVars, tmVars, thVars>>

OpenNext ==
    \/ \E t \in Callers, op \in OpenCalls : OpenCall(t, op) /\ OpenRest
    \/ \E t \in Callers : OpenLock(t) /\ OpenRest
    \/ \E t \in Callers : OpenCheck(t) /\ OpenRest
    \/ \E t \in Callers, sight \in Sightings, o \in Outcomes :
          OpenCreate(t, sight, o) /\ OpenRest
    \/ \E t \in Callers : OpenRelease(t) /\ OpenRest

SpecOpen == OpenInit /\ [][OpenNext]_vars

\* C16: no two threads are inside the bodies of _get_shared_device and
\* _release_shared_device at once, so a creation overlaps neither another
\* creation nor a release; the device is open at most once and the open handle
\* is the shared one; a handle a thread has obtained is, while open, the
\* shared handle, so two threads that asked for it concurrently while none
\* existed hold the same handle, opened once.
C16_AtomicCreation ==
    /\ \A t, u \in Callers : (t # u) => ~(InBody(t) /\ InBody(u))
    /\ Cardinality(os_open) <= 1
    /\ \A id \in os_open : shared_device.id = id
    /\ \A t \in Callers :
          IsOpen(caller[t].ret) => caller[t].ret = shared_device
    /\ ( /\ contended
         /\ \A t \in Callers :
               /\ caller[t].pc = "idle"
               /\ caller[t].op = "get"
               /\ caller[t].ret # NoHandle )
       => \A t \in Callers : caller[t].ret = shared_device /\ IsOpen(shared_device)

\* the second thread asked for the handle while the first was creating it,
\* both calls have returned and the device was opened once
C16_Witness ==
    /\ contended
    /\ \A t \in Callers :
          /\ caller[t].pc = "idle"
          /\ caller[t].op = "get"
          /\ caller[t].ret = shared_device
    /\ IsOpen(shared_device)
    /\ next_id = 1

\* the place of an open call in the fixed order
MethodRank(m) ==
    CASE m = "open_path" -> 0
      [] m = "direct" -> 1
      [] m = "hid_open" -> 2
      [] m = "device_open" -> 3

\* C17: the open calls of one pass are made in the order open_path, the two
\* opens by ids (direct binding, then hid.open), device().open; open_path comes
\* first whenever a path is known and the library has hid.device, and is not
\* called without a path; no call follows one that succeeded; the pass
\* returns no handle only if every call it made failed, and then
\* shared_device is None; a returned handle is the one of the call that
\* succeeded.
C17_MethodOrder ==
    LET tr == open_log.tried IN
    /\ \A i, j \in 1..Len(tr) : i < j => MethodRank(tr[i].m) < MethodRank(tr[j].m)
    /\ \A i \in 1..Len(tr) :
          tr[i].m = "open_path" => (i = 1 /\ open_log.sight = "path")
    /\ (open_log.sight = "path" /\ lib.device /\ lib.hid)
          => (tr # <<>> /\ tr[1].m = "open_path")
    /\ \A i \in 1..(Len(tr) - 1) : ~tr[i].ok
    /\ open_log.ret = NoHandle
          => /\ \A i \in 1..Len(tr) : ~tr[i].ok
             /\ shared_device = NoHandle
    /\ open_log.ret # NoHandle
          => /\ tr # <<>>
             /\ tr[Len(tr)].ok
             /\ open_log.ret.method = tr[Len(tr)].m

\* with a path known and a library offering every opening method, all four
\* calls were made in order and failed, and no handle was left
C17_Witness ==
    /\ open_log.sight = "path"
    /\ Len(open_log.tried) = 4
    /\ open_log.tried[1].m = "open_path"
    /\ open_log.tried[4].m = "device_open"
    /\ \A i \in 1..4 : ~open_log.tried[i].ok
    /\ open_log.ret = NoHandle
    /\ shared_device = NoHandle
    /\ \A t \in Callers : caller[t].pc # "create"

-----------------------------------------------------------------------------
(* SmartModeManager driven by TemperatureMonitor._monitor_loop: a sample   *)
(* reaches get_rpm_for_temperature only when the measured value differs    *)
(* from the one measured before                                            *)

\* start_monitoring(interval=2): seconds slept per iteration
TempInterval == 2

\* the temperatures measured (tenths of a degree): 45.0 and 49.5 lie in the
\* 1300 RPM range, 65.0 in the 1900 RPM range
DrivenTemps == {450, 495, 650}

\* get_temperature(), "if temp != self.temperature", and the callback
\* on_temperature_change, which asks SmartModeManager only while Smart Mode
\* is enabled
TempMeasure(temp) ==
    /\ tm.pc = "measure"
    /\ tm' = [temperature |-> temp, pc |-> "sleep"]
    /\ IF temp # tm.temperature /\ is_enabled
       THEN get_rpm_for_temperature(temp)
       ELSE UNCHANGED smartVars

\* time.sleep(interval); the clock of the model stops at MaxTime
TempSleep ==
    /\ tm.pc = "sleep"
    /\ tm' = [tm EXCEPT !.pc = "measure"]
    /\ now' = IF now + TempInterval <= MaxTime THEN now + TempInterval
              ELSE MaxTime
    /\ UNCHANGED <<temperature_ranges, is_enabled, last_temperature, last_rpm,
                   pending_rpm_change, rpm_change_time, smart_ret,
                   smart_branch, smart_arg>>

\* the user switches Smart Mode on
SwitchOn ==
    /\ ~is_enabled
    /\ set_enabled(TRUE)
    /\ UNCHANGED tm

DrivenInit ==
    /\ SmartInit
    /\ TmIdle
    /\ CalcIdle
    /\ DecIdle
    /\ DetIdle
    /\ DevIdle
    /\ PubIdle
    /\ OpenIdle
    /\ ThIdle

DrivenRest ==
    UNCHANGED <<calcVars, decVars, detVars, devVars, pubVars, openVars, thVars>>

DrivenLoop ==
    \/ \E temp \in DrivenTemps : TempMeasure(temp) /\ DrivenRest
    \/ TempSleep /\ DrivenRest

DrivenNext ==
    \/ \E temp \in DrivenTemps : TempMeasure(temp) /\ DrivenRest
    \/ TempSleep /\ DrivenRest
    \/ SwitchOn /\ DrivenRest

\* the monitor thread keeps running its loop
SpecDriven == DrivenInit /\ [][DrivenNext]_vars /\ WF_vars(DrivenLoop)

\* the temperature last measured indicates the pending RPM
MeasuredAtPending ==
    /\ pending_rpm_change # None
    /\ calculate_target_rpm(temperature_ranges, tm.temperature)
          = Val(pending_rpm_change)

\* C29: once a decrease is pending and its delay has elapsed, either the
\* measured temperature leaves the values that indicate the pending RPM, or
\* the pending RPM is applied and the pending state cleared, with the
\* controller driven by the temperature monitor.
C29_PendingApplied ==
    []( ( /\ HasPending
          /\ is_enabled
          /\ now - Val(rpm_change_time) >= rpm_change_delay
          /\ MeasuredAtPending )
        => <>( \/ pending_rpm_change = None
               \/ ~MeasuredAtPending ) )

-----------------------------------------------------------------------------
(* RPMMonitor.start_monitoring and stop_monitoring called again and again, *)
(* and the threads they leave behind                                       *)

\* thread i is inside an iteration of the while loop of _monitor_loop
Iterating(i) == th.pc[i] \in {"read_timed", "read_blocking"}

\* join(timeout=2) returns although the thread has not ended
JoinTimesOut(timed_out) == timed_out

\* start_monitoring: nothing while is_monitoring is set or the device is not
\* detected, else the flag is set and a new thread started
ThStart(found) ==
    /\ th.ctl = "idle"
    /\ \E i \in ThreadIds : th.pc[i] = "unborn"
    /\ IF th.is_monitoring \/ ~found
       THEN UNCHANGED th
       ELSE LET new == CHOOSE i \in ThreadIds :
                          /\ th.pc[i] = "unborn"
                          /\ \A j \in ThreadIds : th.pc[j] = "unborn" => i <= j
            IN th' = [th EXCEPT !.is_monitoring = TRUE,
                                !.monitor_thread = new,
                                !.pc[new] = "test"]

\* stop_monitoring up to the join
ThStop ==
    /\ th.ctl = "idle"
    /\ IF ~th.is_monitoring
       THEN UNCHANGED th
       ELSE th' = [th EXCEPT !.is_monitoring = FALSE, !.ctl = "joining"]

\* monitor_thread.join(timeout=2) returns: the thread has ended, or the
\* two seconds are over
ThJoin(timed_out) ==
    /\ th.ctl = "joining"
    /\ \/ th.pc[th.monitor_thread] = "exited"
       \/ JoinTimesOut(timed_out)
    /\ th' = [th EXCEPT !.ctl = "idle"]

\* "while self.is_monitoring", evaluated by thread i; inside the loop the
\* first read is hid_read_timeout(.., 1000) on a direct handle and
\* self.device.read(32), without timeout, on a regular one
ThTest(i) ==
    /\ th.pc[i] = "test"
    /\ th' = [th EXCEPT !.pc[i] = IF ~th.is_monitoring THEN "exited"
                                  ELSE IF th.direct THEN "read_timed"
                                  ELSE "read_blocking"]

\* hid_read_timeout returns within its second: with a report the iteration
\* ends, without one the alternative read hid_read, which has no timeout,
\* starts
ThTimedRead(i, got_data) ==
    /\ th.pc[i] = "read_timed"
    /\ th' = [th EXCEPT !.pc[i] = IF got_data THEN "test" ELSE "read_blocking"]

\* a read without timeout returns once the device has sent a report (or
\* the read has failed), and the iteration ends
ThReportArrives(i) ==
    /\ th.pc[i] = "read_blocking"
    /\ th' = [th EXCEPT !.pc[i] = "test"]

ThInit ==
    /\ \E direct \in BOOLEAN : th = NoThreads(direct)
    /\ SmartInit
    /\ CalcIdle
    /\ DecIdle
    /\ DetIdle
    /\ DevIdle
    /\ PubIdle
    /\ OpenIdle
    /\ TmIdle

ThRest ==
    UNCHANGED <<smartVars, calcVars, decVars, detVars, devVars, pubVars,
                openVars, tmVars>>

ThNext ==
    \/ \E found \in BOOLEAN : ThStart(found) /\ ThRest
    \/ ThStop /\ ThRest
    \/ \E timed_out \in BOOLEAN : ThJoin(timed_out) /\ ThRest
    \/ \E i \in ThreadIds : ThTest(i) /\ ThRest
    \/ \E i \in ThreadIds, got_data \in BOOLEAN :
          ThTimedRead(i, got_data) /\ ThRest
    \/ \E i \in ThreadIds : ThReportArrives(i) /\ ThRest

SpecThreads == ThInit /\ [][ThNext]_vars

\* every thread runs on: the loop test and the read with a timeout take
\* their steps; when a read without timeout returns is up to the device
SpecStop ==
    /\ ThInit
    /\ [][ThNext]_vars
    /\ \A i \in ThreadIds : WF_vars(ThTest(i) /\ ThRest)
    /\ \A i \in ThreadIds :
          WF_vars((\E got_data \in BOOLEAN : ThTimedRead(i, got_data)) /\ ThRest)

\* thread i has been started and has not left _monitor_loop
InLoop(i) == th.pc[i] \in {"test", "read_timed", "read_blocking"}

\* C30: at no time are two telemetry threads inside the loop of
\* _monitor_loop, whatever the sequence of start_monitoring and
\* stop_monitoring calls, a stop whose join timed out included.
C30_OneMonitorThread ==
    Cardinality({i \in ThreadIds : Iterating(i)}) <= 1

\* C24: after stop_monitoring has cleared the flag, and unless monitoring is
\* started again, every telemetry thread eventually leaves its loop: none
\* stays blocked in a read or keeps iterating.
C24_StopTerminates ==
    [](~th.is_monitoring
         => <>(th.is_monitoring \/ \A i \in ThreadIds : ~InLoop(i)))

=============================================================================
